---- MODULE Spec2Model ----
(***************************************************************************)
(* News MCP server (src/src/server.py): query expansion, article matching  *)
(* and scoring, result ranking, and the four tool handlers.                *)
(*                                                                         *)
(* A Python str is modelled as a sequence of one-character strings, so     *)
(* that lower(), strip(), `in` (substring), join and the lexicographic     *)
(* order of str are computed and not assumed.  A dict that the code only   *)
(* iterates or looks up is a sequence of <<key, value>> pairs in insertion *)
(* order.  An article dict is a record; the caller's list of article       *)
(* objects is the sequence `articles`, and a list of references to those   *)
(* objects (the list `filtered`) is a sequence of indices into it.         *)
(***************************************************************************)
EXTENDS Integers, Sequences, FiniteSets, TLC

VARIABLES pc, query, articles, filtered, search_terms, feeds, request, response, fetched

vars == <<pc, query, articles, filtered, search_terms, feeds, request, response, fetched>>

----------------------------------------------------------------------------
(* Python str operations *)

\* the printable ASCII characters in code point order, 32 (space) first; the
\* entry "grave" holds the place of code point 96, which no string here uses
Ascii ==
  << " ", "!", "\"", "#", "$", "%", "&", "'", "(", ")", "*", "+", ",", "-", ".", "/",
     "0", "1", "2", "3", "4", "5", "6", "7", "8", "9", ":", ";", "<", "=", ">", "?",
     "@", "A", "B", "C", "D", "E", "F", "G", "H", "I", "J", "K", "L", "M", "N", "O",
     "P", "Q", "R", "S", "T", "U", "V", "W", "X", "Y", "Z", "[", "\\",
     "]", "^", "_",
     "grave", "a", "b", "c", "d", "e", "f", "g", "h", "i", "j", "k", "l", "m", "n", "o",
     "p", "q", "r", "s", "t", "u", "v", "w", "x", "y", "z", "{", "|", "}", "~" >>

\* ord(c) of a printable ASCII character
Ord(c) == 31 + (CHOOSE i \in 1..Len(Ascii) : Ascii[i] = c)

\* str.lower() on one character: A..Z (65..90) map to a..z (97..122)
LowerChar(c) ==
  LET o == Ord(c) IN IF o >= 65 /\ o <= 90 THEN Ascii[o + 32 - 31] ELSE c

\* s.lower()
lower(s) == [i \in 1..Len(s) |-> LowerChar(s[i])]

\* str.isspace() on one character of the modelled alphabet
IsSpace(c) == c = " "

\* s.strip(): drop the leading and the trailing whitespace
strip(s) ==
  LET nonspace == {i \in 1..Len(s) : ~IsSpace(s[i])}
  IN  IF nonspace = {} THEN <<>>
      ELSE LET first == CHOOSE i \in nonspace : \A j \in nonspace : i <= j
               last  == CHOOSE i \in nonspace : \A j \in nonspace : j <= i
           IN  SubSeq(s, first, last)

\* Python `t in s` for two str: t occurs in s as a contiguous substring
contains(s, t) ==
  \E i \in 0..(Len(s) - Len(t)) : SubSeq(s, i + 1, i + Len(t)) = t

\* " ".join(parts)
RECURSIVE join(_)
join(parts) ==
  IF Len(parts) = 0 THEN <<>>
  ELSE IF Len(parts) = 1 THEN parts[1]
  ELSE parts[1] \o <<" ">> \o join(Tail(parts))

\* Python a < b for two str: lexicographic by code point, a proper prefix first
RECURSIVE StrLess(_, _)
StrLess(a, b) ==
  IF Len(b) = 0 THEN FALSE
  ELSE IF Len(a) = 0 THEN TRUE
  ELSE IF Ord(a[1]) < Ord(b[1]) THEN TRUE
  ELSE IF Ord(a[1]) > Ord(b[1]) THEN FALSE
  ELSE StrLess(Tail(a), Tail(b))

\* the elements of a list, as a set
Range(seq) == {seq[i] : i \in 1..Len(seq)}

\* list concatenation of a list of lists
RECURSIVE Flatten(_)
Flatten(lists) == IF Len(lists) = 0 THEN <<>> ELSE lists[1] \o Flatten(Tail(lists))

Min(a, b) == IF a < b THEN a ELSE b
Max(a, b) == IF a > b THEN a ELSE b

----------------------------------------------------------------------------
(* Static tables *)

\* server.py:20-29  NEWS_SOURCES, a dict in insertion order: <<source id, feed URL>>
NEWS_SOURCES ==
  << <<"bbc", <<"h","t","t","p",":","/","/","f","e","e","d","s",".","b","b","c","i",".","c","o",".","u","k","/","n","e","w","s","/","r","s","s",".","x","m","l">>>>,
     <<"reuters", <<"h","t","t","p","s",":","/","/","f","e","e","d","s",".","r","e","u","t","e","r","s",".","c","o","m","/","r","e","u","t","e","r","s","/","t","o","p","N","e","w","s">>>>,
     <<"ap", <<"h","t","t","p","s",":","/","/","f","e","e","d","s",".","a","p","n","e","w","s",".","c","o","m","/","r","s","s","/","a","p","f","-","t","o","p","n","e","w","s">>>>,
     <<"techcrunch", <<"h","t","t","p","s",":","/","/","t","e","c","h","c","r","u","n","c","h",".","c","o","m","/","f","e","e","d","/">>>>,
     <<"cnn", <<"h","t","t","p",":","/","/","r","s","s",".","c","n","n",".","c","o","m","/","r","s","s","/","e","d","i","t","i","o","n",".","r","s","s">>>>,
     <<"npr", <<"h","t","t","p","s",":","/","/","f","e","e","d","s",".","n","p","r",".","o","r","g","/","1","0","0","1","/","r","s","s",".","x","m","l">>>>,
     <<"guardian", <<"h","t","t","p","s",":","/","/","w","w","w",".","t","h","e","g","u","a","r","d","i","a","n",".","c","o","m","/","w","o","r","l","d","/","r","s","s">>>>,
     <<"nytimes", <<"h","t","t","p","s",":","/","/","r","s","s",".","n","y","t","i","m","e","s",".","c","o","m","/","s","e","r","v","i","c","e","s","/","x","m","l","/","r","s","s","/","n","y","t","/","H","o","m","e","P","a","g","e",".","x","m","l">>>> >>

\* server.py:32-84  CATEGORY_KEYWORDS, a dict in insertion order: <<category, keywords>>
CATEGORY_KEYWORDS ==
  << <<"politics",
        <<<<"p","o","l","i","t","i","c","s">>,
          <<"p","o","l","i","t","i","c","a","l">>,
          <<"g","o","v","e","r","n","m","e","n","t">>,
          <<"e","l","e","c","t","i","o","n">>,
          <<"p","r","e","s","i","d","e","n","t">>,
          <<"c","o","n","g","r","e","s","s">>,
          <<"s","e","n","a","t","e">>,
          <<"d","e","m","o","c","r","a","c","y">>,
          <<"p","o","l","i","c","y">>,
          <<"v","o","t","i","n","g">>,
          <<"c","a","m","p","a","i","g","n">>,
          <<"c","a","n","d","i","d","a","t","e">>,
          <<"p","a","r","l","i","a","m","e","n","t">>,
          <<"m","i","n","i","s","t","e","r">>,
          <<"t","r","u","m","p">>,
          <<"b","i","d","e","n">>,
          <<"r","e","p","u","b","l","i","c","a","n">>,
          <<"d","e","m","o","c","r","a","t">>,
          <<"l","i","b","e","r","a","l">>,
          <<"c","o","n","s","e","r","v","a","t","i","v","e">>,
          <<"f","e","d","e","r","a","l">>,
          <<"s","t","a","t","e">>,
          <<"l","o","c","a","l">>,
          <<"m","a","y","o","r">>,
          <<"g","o","v","e","r","n","o","r">>,
          <<"s","e","n","a","t","o","r">>,
          <<"r","e","p","r","e","s","e","n","t","a","t","i","v","e">>,
          <<"c","a","b","i","n","e","t">>>> >>,
     <<"technology",
        <<<<"t","e","c","h","n","o","l","o","g","y">>,
          <<"t","e","c","h">>,
          <<"a","i">>,
          <<"a","r","t","i","f","i","c","i","a","l"," ","i","n","t","e","l","l","i","g","e","n","c","e">>,
          <<"s","o","f","t","w","a","r","e">>,
          <<"s","t","a","r","t","u","p">>,
          <<"i","n","n","o","v","a","t","i","o","n">>,
          <<"d","i","g","i","t","a","l">>,
          <<"c","o","m","p","u","t","e","r">>,
          <<"i","n","t","e","r","n","e","t">>,
          <<"a","p","p">>,
          <<"m","o","b","i","l","e">>,
          <<"s","m","a","r","t","p","h","o","n","e">>,
          <<"m","a","c","h","i","n","e"," ","l","e","a","r","n","i","n","g">>,
          <<"m","l">>,
          <<"n","e","u","r","a","l"," ","n","e","t","w","o","r","k">>,
          <<"d","e","e","p"," ","l","e","a","r","n","i","n","g">>,
          <<"c","h","a","t","g","p","t">>,
          <<"o","p","e","n","a","i">>,
          <<"g","p","t">>,
          <<"l","l","m">>,
          <<"b","l","o","c","k","c","h","a","i","n">>,
          <<"c","r","y","p","t","o">>,
          <<"c","r","y","p","t","o","c","u","r","r","e","n","c","y">>,
          <<"b","i","t","c","o","i","n">>,
          <<"e","t","h","e","r","e","u","m">>,
          <<"a","p","p","l","e">>,
          <<"g","o","o","g","l","e">>,
          <<"m","i","c","r","o","s","o","f","t">>,
          <<"a","m","a","z","o","n">>,
          <<"m","e","t","a">>,
          <<"f","a","c","e","b","o","o","k">>,
          <<"t","w","i","t","t","e","r">>,
          <<"x">>,
          <<"t","e","s","l","a">>,
          <<"s","p","a","c","e","x">>,
          <<"n","v","i","d","i","a">>,
          <<"i","n","t","e","l">>,
          <<"a","m","d">>,
          <<"q","u","a","l","c","o","m","m">>,
          <<"s","a","m","s","u","n","g">>,
          <<"h","u","a","w","e","i">>>> >>,
     <<"business",
        <<<<"b","u","s","i","n","e","s","s">>,
          <<"e","c","o","n","o","m","y">>,
          <<"m","a","r","k","e","t">>,
          <<"f","i","n","a","n","c","e">>,
          <<"s","t","o","c","k">>,
          <<"t","r","a","d","i","n","g">>,
          <<"i","n","v","e","s","t","m","e","n","t">>,
          <<"c","o","r","p","o","r","a","t","e">>,
          <<"c","o","m","p","a","n","y">>,
          <<"e","a","r","n","i","n","g","s">>,
          <<"r","e","v","e","n","u","e">>,
          <<"p","r","o","f","i","t">>,
          <<"l","o","s","s">>,
          <<"m","e","r","g","e","r">>,
          <<"a","c","q","u","i","s","i","t","i","o","n">>,
          <<"i","p","o">>,
          <<"v","e","n","t","u","r","e"," ","c","a","p","i","t","a","l">>,
          <<"f","u","n","d","i","n","g">>,
          <<"s","t","a","r","t","u","p">>,
          <<"u","n","i","c","o","r","n">>,
          <<"w","a","l","l"," ","s","t","r","e","e","t">>,
          <<"n","a","s","d","a","q">>,
          <<"d","o","w"," ","j","o","n","e","s">>,
          <<"s","&","p">>,
          <<"f","t","s","e">>,
          <<"n","i","k","k","e","i">>,
          <<"d","a","x">>,
          <<"c","e","o">>,
          <<"c","f","o">>,
          <<"c","t","o">>,
          <<"b","o","a","r","d">>,
          <<"s","h","a","r","e","h","o","l","d","e","r">>,
          <<"d","i","v","i","d","e","n","d">>,
          <<"b","a","n","k","r","u","p","t","c","y">>>> >>,
     <<"sports",
        <<<<"s","p","o","r","t","s">>,
          <<"s","p","o","r","t">>,
          <<"f","o","o","t","b","a","l","l">>,
          <<"b","a","s","k","e","t","b","a","l","l">>,
          <<"b","a","s","e","b","a","l","l">>,
          <<"s","o","c","c","e","r">>,
          <<"o","l","y","m","p","i","c","s">>,
          <<"a","t","h","l","e","t","i","c","s">>,
          <<"t","e","n","n","i","s">>,
          <<"g","o","l","f">>,
          <<"h","o","c","k","e","y">>,
          <<"c","r","i","c","k","e","t">>,
          <<"r","u","g","b","y">>,
          <<"b","o","x","i","n","g">>,
          <<"m","m","a">>,
          <<"n","f","l">>,
          <<"n","b","a">>,
          <<"m","l","b">>,
          <<"n","h","l">>,
          <<"m","l","s">>,
          <<"p","r","e","m","i","e","r"," ","l","e","a","g","u","e">>,
          <<"c","h","a","m","p","i","o","n","s"," ","l","e","a","g","u","e">>,
          <<"w","o","r","l","d"," ","c","u","p">>,
          <<"s","u","p","e","r"," ","b","o","w","l">>,
          <<"s","t","a","n","l","e","y"," ","c","u","p">>,
          <<"n","b","a"," ","f","i","n","a","l","s">>,
          <<"w","o","r","l","d"," ","s","e","r","i","e","s">>,
          <<"a","t","h","l","e","t","e">>,
          <<"p","l","a","y","e","r">>,
          <<"t","e","a","m">>,
          <<"c","o","a","c","h">>,
          <<"c","h","a","m","p","i","o","n","s","h","i","p">>,
          <<"t","o","u","r","n","a","m","e","n","t">>,
          <<"m","a","t","c","h">>>> >>,
     <<"health",
        <<<<"h","e","a","l","t","h">>,
          <<"h","e","a","l","t","h","c","a","r","e">>,
          <<"m","e","d","i","c","a","l">>,
          <<"m","e","d","i","c","i","n","e">>,
          <<"c","o","v","i","d">>,
          <<"p","a","n","d","e","m","i","c">>,
          <<"d","i","s","e","a","s","e">>,
          <<"v","i","r","u","s">>,
          <<"b","a","c","t","e","r","i","a">>,
          <<"i","n","f","e","c","t","i","o","n">>,
          <<"v","a","c","c","i","n","e">>,
          <<"v","a","c","c","i","n","a","t","i","o","n">>,
          <<"t","r","e","a","t","m","e","n","t">>,
          <<"t","h","e","r","a","p","y">>,
          <<"s","u","r","g","e","r","y">>,
          <<"h","o","s","p","i","t","a","l">>,
          <<"d","o","c","t","o","r">>,
          <<"n","u","r","s","e">>,
          <<"p","a","t","i","e","n","t">>,
          <<"d","i","a","g","n","o","s","i","s">>,
          <<"s","y","m","p","t","o","m","s">>,
          <<"c","u","r","e">>,
          <<"p","r","e","v","e","n","t","i","o","n">>,
          <<"m","e","n","t","a","l"," ","h","e","a","l","t","h">>,
          <<"d","e","p","r","e","s","s","i","o","n">>,
          <<"a","n","x","i","e","t","y">>,
          <<"c","a","n","c","e","r">>,
          <<"d","i","a","b","e","t","e","s">>,
          <<"h","e","a","r","t">>,
          <<"s","t","r","o","k","e">>,
          <<"a","l","z","h","e","i","m","e","r">>,
          <<"d","e","m","e","n","t","i","a">>,
          <<"a","u","t","i","s","m">>>> >>,
     <<"science",
        <<<<"s","c","i","e","n","c","e">>,
          <<"s","c","i","e","n","t","i","f","i","c">>,
          <<"r","e","s","e","a","r","c","h">>,
          <<"s","t","u","d","y">>,
          <<"d","i","s","c","o","v","e","r","y">>,
          <<"s","p","a","c","e">>,
          <<"c","l","i","m","a","t","e">>,
          <<"p","h","y","s","i","c","s">>,
          <<"c","h","e","m","i","s","t","r","y">>,
          <<"b","i","o","l","o","g","y">>,
          <<"m","a","t","h","e","m","a","t","i","c","s">>,
          <<"e","n","g","i","n","e","e","r","i","n","g">>,
          <<"m","e","d","i","c","i","n","e">>,
          <<"n","a","s","a">>,
          <<"s","p","a","c","e","x">>,
          <<"a","s","t","r","o","n","o","m","y">>,
          <<"m","a","r","s">>,
          <<"m","o","o","n">>,
          <<"s","a","t","e","l","l","i","t","e">>,
          <<"r","o","c","k","e","t">>,
          <<"m","i","s","s","i","o","n">>,
          <<"c","l","i","m","a","t","e"," ","c","h","a","n","g","e">>,
          <<"g","l","o","b","a","l"," ","w","a","r","m","i","n","g">>,
          <<"e","n","v","i","r","o","n","m","e","n","t">>,
          <<"c","a","r","b","o","n">>,
          <<"e","m","i","s","s","i","o","n","s">>,
          <<"r","e","n","e","w","a","b","l","e">>,
          <<"s","o","l","a","r">>,
          <<"w","i","n","d">>,
          <<"n","u","c","l","e","a","r">>,
          <<"f","o","s","s","i","l"," ","f","u","e","l">>,
          <<"g","r","e","e","n"," ","e","n","e","r","g","y">>,
          <<"e","v","o","l","u","t","i","o","n">>,
          <<"g","e","n","e","t","i","c","s">>,
          <<"d","n","a">>,
          <<"g","e","n","o","m","e">>,
          <<"q","u","a","n","t","u","m">>,
          <<"p","a","r","t","i","c","l","e">>,
          <<"a","t","o","m">>>> >>,
     <<"world",
        <<<<"w","o","r","l","d">>,
          <<"i","n","t","e","r","n","a","t","i","o","n","a","l">>,
          <<"g","l","o","b","a","l">>,
          <<"f","o","r","e","i","g","n">>,
          <<"d","i","p","l","o","m","a","c","y">>,
          <<"d","i","p","l","o","m","a","t","i","c">>,
          <<"u","n","i","t","e","d"," ","n","a","t","i","o","n","s">>,
          <<"u","n">>,
          <<"n","a","t","o">>,
          <<"e","u">>,
          <<"e","u","r","o","p","e","a","n"," ","u","n","i","o","n">>,
          <<"b","r","e","x","i","t">>,
          <<"t","r","a","d","e">>,
          <<"w","a","r">>,
          <<"c","o","n","f","l","i","c","t">>,
          <<"p","e","a","c","e">>,
          <<"t","r","e","a","t","y">>,
          <<"a","g","r","e","e","m","e","n","t">>,
          <<"s","u","m","m","i","t">>,
          <<"c","o","n","f","e","r","e","n","c","e">>,
          <<"e","m","b","a","s","s","y">>,
          <<"a","m","b","a","s","s","a","d","o","r">>,
          <<"m","i","n","i","s","t","e","r">>,
          <<"s","e","c","r","e","t","a","r","y">>,
          <<"p","r","e","s","i","d","e","n","t">>,
          <<"p","r","i","m","e"," ","m","i","n","i","s","t","e","r">>,
          <<"c","h","i","n","a">>,
          <<"r","u","s","s","i","a">>,
          <<"i","n","d","i","a">>,
          <<"j","a","p","a","n">>,
          <<"g","e","r","m","a","n","y">>,
          <<"f","r","a","n","c","e">>,
          <<"u","k">>,
          <<"c","a","n","a","d","a">>,
          <<"a","u","s","t","r","a","l","i","a">>,
          <<"b","r","a","z","i","l">>,
          <<"m","e","x","i","c","o">>,
          <<"a","f","r","i","c","a">>,
          <<"a","s","i","a">>,
          <<"e","u","r","o","p","e">>,
          <<"a","m","e","r","i","c","a","s">>>> >> >>

\* server.py:149-175  synonym_groups, a dict in insertion order: <<key, synonyms>>
synonym_groups ==
  << <<<<"a","i">>,
        <<<<"a","r","t","i","f","i","c","i","a","l"," ","i","n","t","e","l","l","i","g","e","n","c","e">>,
          <<"m","a","c","h","i","n","e"," ","l","e","a","r","n","i","n","g">>,
          <<"m","l">>,
          <<"n","e","u","r","a","l"," ","n","e","t","w","o","r","k">>,
          <<"d","e","e","p"," ","l","e","a","r","n","i","n","g">>,
          <<"c","h","a","t","g","p","t">>,
          <<"o","p","e","n","a","i">>,
          <<"g","p","t">>,
          <<"l","l","m">>,
          <<"l","a","r","g","e"," ","l","a","n","g","u","a","g","e"," ","m","o","d","e","l">>>> >>,
     <<<<"a","r","t","i","f","i","c","i","a","l"," ","i","n","t","e","l","l","i","g","e","n","c","e">>,
        <<<<"a","i">>,
          <<"m","a","c","h","i","n","e"," ","l","e","a","r","n","i","n","g">>,
          <<"m","l">>,
          <<"n","e","u","r","a","l"," ","n","e","t","w","o","r","k">>,
          <<"d","e","e","p"," ","l","e","a","r","n","i","n","g">>,
          <<"c","h","a","t","g","p","t">>,
          <<"o","p","e","n","a","i">>,
          <<"g","p","t">>,
          <<"l","l","m">>,
          <<"l","a","r","g","e"," ","l","a","n","g","u","a","g","e"," ","m","o","d","e","l">>>> >>,
     <<<<"m","a","c","h","i","n","e"," ","l","e","a","r","n","i","n","g">>,
        <<<<"a","i">>,
          <<"a","r","t","i","f","i","c","i","a","l"," ","i","n","t","e","l","l","i","g","e","n","c","e">>,
          <<"m","l">>,
          <<"n","e","u","r","a","l"," ","n","e","t","w","o","r","k">>,
          <<"d","e","e","p"," ","l","e","a","r","n","i","n","g">>,
          <<"d","a","t","a"," ","s","c","i","e","n","c","e">>>> >>,
     <<<<"c","r","y","p","t","o">>,
        <<<<"c","r","y","p","t","o","c","u","r","r","e","n","c","y">>,
          <<"b","i","t","c","o","i","n">>,
          <<"e","t","h","e","r","e","u","m">>,
          <<"b","l","o","c","k","c","h","a","i","n">>,
          <<"c","r","y","p","t","o">>,
          <<"d","i","g","i","t","a","l"," ","c","u","r","r","e","n","c","y">>>> >>,
     <<<<"c","r","y","p","t","o","c","u","r","r","e","n","c","y">>,
        <<<<"c","r","y","p","t","o">>,
          <<"b","i","t","c","o","i","n">>,
          <<"e","t","h","e","r","e","u","m">>,
          <<"b","l","o","c","k","c","h","a","i","n">>,
          <<"d","i","g","i","t","a","l"," ","c","u","r","r","e","n","c","y">>>> >>,
     <<<<"b","i","t","c","o","i","n">>,
        <<<<"c","r","y","p","t","o">>,
          <<"c","r","y","p","t","o","c","u","r","r","e","n","c","y">>,
          <<"b","t","c">>,
          <<"d","i","g","i","t","a","l"," ","c","u","r","r","e","n","c","y">>>> >>,
     <<<<"c","l","i","m","a","t","e">>,
        <<<<"c","l","i","m","a","t","e"," ","c","h","a","n","g","e">>,
          <<"g","l","o","b","a","l"," ","w","a","r","m","i","n","g">>,
          <<"e","n","v","i","r","o","n","m","e","n","t">>,
          <<"c","a","r","b","o","n">>,
          <<"e","m","i","s","s","i","o","n","s">>,
          <<"s","u","s","t","a","i","n","a","b","i","l","i","t","y">>>> >>,
     <<<<"c","l","i","m","a","t","e"," ","c","h","a","n","g","e">>,
        <<<<"c","l","i","m","a","t","e">>,
          <<"g","l","o","b","a","l"," ","w","a","r","m","i","n","g">>,
          <<"e","n","v","i","r","o","n","m","e","n","t">>,
          <<"c","a","r","b","o","n">>,
          <<"e","m","i","s","s","i","o","n","s">>,
          <<"s","u","s","t","a","i","n","a","b","i","l","i","t","y">>>> >>,
     <<<<"t","e","c","h">>,
        <<<<"t","e","c","h","n","o","l","o","g","y">>,
          <<"t","e","c","h">>,
          <<"s","o","f","t","w","a","r","e">>,
          <<"s","t","a","r","t","u","p">>,
          <<"i","n","n","o","v","a","t","i","o","n">>,
          <<"d","i","g","i","t","a","l">>>> >>,
     <<<<"t","e","c","h","n","o","l","o","g","y">>,
        <<<<"t","e","c","h">>,
          <<"s","o","f","t","w","a","r","e">>,
          <<"s","t","a","r","t","u","p">>,
          <<"i","n","n","o","v","a","t","i","o","n">>,
          <<"d","i","g","i","t","a","l">>,
          <<"t","e","c","h">>>> >>,
     <<<<"p","o","l","i","t","i","c","s">>,
        <<<<"p","o","l","i","t","i","c","a","l">>,
          <<"g","o","v","e","r","n","m","e","n","t">>,
          <<"e","l","e","c","t","i","o","n">>,
          <<"d","e","m","o","c","r","a","c","y">>,
          <<"p","o","l","i","c","y">>,
          <<"c","o","n","g","r","e","s","s">>,
          <<"s","e","n","a","t","e">>>> >>,
     <<<<"b","u","s","i","n","e","s","s">>,
        <<<<"e","c","o","n","o","m","y">>,
          <<"m","a","r","k","e","t">>,
          <<"f","i","n","a","n","c","e">>,
          <<"t","r","a","d","i","n","g">>,
          <<"i","n","v","e","s","t","m","e","n","t">>,
          <<"c","o","r","p","o","r","a","t","e">>,
          <<"c","o","m","p","a","n","y">>>> >>,
     <<<<"h","e","a","l","t","h">>,
        <<<<"m","e","d","i","c","a","l">>,
          <<"h","e","a","l","t","h","c","a","r","e">>,
          <<"m","e","d","i","c","i","n","e">>,
          <<"c","o","v","i","d">>,
          <<"p","a","n","d","e","m","i","c">>,
          <<"d","i","s","e","a","s","e">>,
          <<"h","e","a","l","t","h">>>> >>,
     <<<<"s","p","o","r","t","s">>,
        <<<<"f","o","o","t","b","a","l","l">>,
          <<"b","a","s","k","e","t","b","a","l","l">>,
          <<"b","a","s","e","b","a","l","l">>,
          <<"s","o","c","c","e","r">>,
          <<"o","l","y","m","p","i","c","s">>,
          <<"a","t","h","l","e","t","i","c","s">>,
          <<"s","p","o","r","t">>>> >>,
     <<<<"s","c","i","e","n","c","e">>,
        <<<<"r","e","s","e","a","r","c","h">>,
          <<"s","t","u","d","y">>,
          <<"d","i","s","c","o","v","e","r","y">>,
          <<"s","p","a","c","e">>,
          <<"p","h","y","s","i","c","s">>,
          <<"c","h","e","m","i","s","t","r","y">>,
          <<"b","i","o","l","o","g","y">>>> >>,
     <<<<"s","p","a","c","e">>,
        <<<<"n","a","s","a">>,
          <<"s","p","a","c","e","x">>,
          <<"a","s","t","r","o","n","o","m","y">>,
          <<"m","a","r","s">>,
          <<"m","o","o","n">>,
          <<"s","a","t","e","l","l","i","t","e">>,
          <<"r","o","c","k","e","t">>>> >>,
     <<<<"t","e","s","l","a">>,
        <<<<"e","l","o","n"," ","m","u","s","k">>,
          <<"e","l","e","c","t","r","i","c"," ","v","e","h","i","c","l","e">>,
          <<"e","v">>,
          <<"t","e","s","l","a">>,
          <<"m","o","d","e","l"," ","s">>,
          <<"m","o","d","e","l"," ","3">>,
          <<"m","o","d","e","l"," ","x">>,
          <<"m","o","d","e","l"," ","y">>>> >>,
     <<<<"a","p","p","l","e">>,
        <<<<"i","p","h","o","n","e">>,
          <<"i","p","a","d">>,
          <<"m","a","c">>,
          <<"i","o","s">>,
          <<"m","a","c","o","s">>,
          <<"t","i","m"," ","c","o","o","k">>,
          <<"a","p","p","l","e">>>> >>,
     <<<<"g","o","o","g","l","e">>,
        <<<<"a","l","p","h","a","b","e","t">>,
          <<"a","n","d","r","o","i","d">>,
          <<"c","h","r","o","m","e">>,
          <<"y","o","u","t","u","b","e">>,
          <<"s","e","a","r","c","h">>,
          <<"g","o","o","g","l","e">>>> >>,
     <<<<"m","i","c","r","o","s","o","f","t">>,
        <<<<"w","i","n","d","o","w","s">>,
          <<"o","f","f","i","c","e">>,
          <<"a","z","u","r","e">>,
          <<"x","b","o","x">>,
          <<"m","i","c","r","o","s","o","f","t">>,
          <<"s","a","t","y","a"," ","n","a","d","e","l","l","a">>>> >>,
     <<<<"a","m","a","z","o","n">>,
        <<<<"a","w","s">>,
          <<"p","r","i","m","e">>,
          <<"b","e","z","o","s">>,
          <<"a","m","a","z","o","n">>,
          <<"a","l","e","x","a">>,
          <<"e","c","h","o">>>> >>,
     <<<<"m","e","t","a">>,
        <<<<"f","a","c","e","b","o","o","k">>,
          <<"i","n","s","t","a","g","r","a","m">>,
          <<"w","h","a","t","s","a","p","p">>,
          <<"z","u","c","k","e","r","b","e","r","g">>,
          <<"m","e","t","a">>,
          <<"v","r">>,
          <<"v","i","r","t","u","a","l"," ","r","e","a","l","i","t","y">>>> >>,
     <<<<"f","a","c","e","b","o","o","k">>,
        <<<<"m","e","t","a">>,
          <<"i","n","s","t","a","g","r","a","m">>,
          <<"w","h","a","t","s","a","p","p">>,
          <<"z","u","c","k","e","r","b","e","r","g">>,
          <<"f","a","c","e","b","o","o","k">>,
          <<"s","o","c","i","a","l"," ","m","e","d","i","a">>>> >>,
     <<<<"t","w","i","t","t","e","r">>,
        <<<<"x">>,
          <<"e","l","o","n"," ","m","u","s","k">>,
          <<"t","w","e","e","t">>,
          <<"t","w","i","t","t","e","r">>,
          <<"s","o","c","i","a","l"," ","m","e","d","i","a">>>> >>,
     <<<<"x">>,
        <<<<"t","w","i","t","t","e","r">>,
          <<"e","l","o","n"," ","m","u","s","k">>,
          <<"t","w","e","e","t">>,
          <<"x">>,
          <<"s","o","c","i","a","l"," ","m","e","d","i","a">>>> >> >>
----------------------------------------------------------------------------
(* expand_query_synonyms *)

\* dict keys / dict lookup on a list of <<key, value>> pairs
Keys(dict) == [i \in 1..Len(dict) |-> dict[i][1]]
HasKey(dict, k) == \E i \in 1..Len(dict) : dict[i][1] = k
Lookup(dict, k) == dict[CHOOSE i \in 1..Len(dict) : dict[i][1] = k][2]

\* line 186 with the `any(...)` clause lost: only a key occurring in the query counts
partial_match_KeyOnly(key, synonyms, query_lower) == contains(query_lower, key)

\* line 186: key in query_lower or any(syn in query_lower for syn in synonyms)
partial_match(key, synonyms, query_lower) ==
  \/ contains(query_lower, key)
  \/ \E j \in 1..Len(synonyms) : contains(query_lower, synonyms[j])

\* line 178 with the seed lost: the list starts empty
seed_terms_Empty(query_lower) == <<>>

\* line 178: expanded_terms = [query_lower]
seed_terms(query_lower) == <<query_lower>>

\* lines 146-192; the returned list(set(...)) has no defined order and no
\* duplicates, and is modelled as the set of its elements
expand_query_synonyms(q) ==
  LET query_lower == strip(lower(q))
      exact == IF HasKey(synonym_groups, query_lower)
               THEN Lookup(synonym_groups, query_lower) ELSE <<>>
      partial == Flatten([i \in 1..Len(synonym_groups) |->
                   IF partial_match(synonym_groups[i][1], synonym_groups[i][2], query_lower)
                   THEN synonym_groups[i][2] ELSE <<>>])
      expanded_terms == seed_terms(query_lower) \o exact \o partial
  IN  {strip(expanded_terms[i]) :
         i \in {j \in 1..Len(expanded_terms) : strip(expanded_terms[j]) # <<>>}}

----------------------------------------------------------------------------
(* search_articles *)

\* lines 209-212: the four lower-cased searchable fields of an article
title_lower(article) == lower(article.title)
summary_lower(article) == lower(article.summary)
tags_lower(article) == lower(join(article.tags))
author_lower(article) == lower(article.author)

\* line 215 with the author left out of the searchable text
text_to_search_NoAuthor(article) ==
  title_lower(article) \o <<" ">> \o summary_lower(article) \o <<" ">> \o tags_lower(article)

\* line 215: f"{title_lower} {summary_lower} {tags_lower} {author_lower}"
text_to_search(article) ==
  title_lower(article) \o <<" ">> \o summary_lower(article) \o <<" ">>
    \o tags_lower(article) \o <<" ">> \o author_lower(article)

\* lines 218-222: some search term occurs in the searchable text
match_found(article, terms) ==
  \E term \in terms : contains(text_to_search(article), term)

\* lines 228-235 with a tag match weighted like a title match
term_score_TagsAsTitle(article, term) ==
    (IF contains(title_lower(article), term) THEN 3 ELSE 0)
  + (IF contains(summary_lower(article), term) THEN 2 ELSE 0)
  + (IF contains(tags_lower(article), term) THEN 3 ELSE 0)
  + (IF contains(author_lower(article), term) THEN 1 ELSE 0)

\* lines 228-235 with the author match not scored
term_score_NoAuthor(article, term) ==
    (IF contains(title_lower(article), term) THEN 3 ELSE 0)
  + (IF contains(summary_lower(article), term) THEN 2 ELSE 0)
  + (IF contains(tags_lower(article), term) THEN 1 ELSE 0)

\* lines 228-235: what one term adds to the relevance score
term_score(article, term) ==
    (IF contains(title_lower(article), term) THEN 3 ELSE 0)
  + (IF contains(summary_lower(article), term) THEN 2 ELSE 0)
  + (IF contains(tags_lower(article), term) THEN 1 ELSE 0)
  + (IF contains(author_lower(article), term) THEN 1 ELSE 0)

\* lines 226-235: the loop over the search terms
RECURSIVE relevance_score(_, _)
relevance_score(article, terms) ==
  IF terms = {} THEN 0
  ELSE LET term == CHOOSE t \in terms : TRUE
       IN  term_score(article, term) + relevance_score(article, terms \ {term})

\* line 237 replacing the dict instead of setting one key of it
set_relevance_score_Replace(article, score) == [relevance_score |-> score]

\* line 237: article["relevance_score"] = relevance_score, on the caller's dict
set_relevance_score(article, score) ==
  [f \in (DOMAIN article) \cup {"relevance_score"} |->
     IF f = "relevance_score" THEN score ELSE article[f]]

\* dict.get(key, default)
get(article, key, default) == IF key \in DOMAIN article THEN article[key] ELSE default

\* line 241 with the publication date left out of the key
search_sort_key_ScoreOnly(x) == <<get(x, "relevance_score", 0), <<>>>>

\* line 241: key=lambda x: (x.get("relevance_score", 0), x.get("published", ""))
search_sort_key(x) == <<get(x, "relevance_score", 0), get(x, "published", <<>>)>>

\* Python a < b for two sort keys: a key is held as the tuple of its
\* components, (int, str) compared as a Python tuple or (str) as the str
key_less(a, b) ==
  IF Len(a) = 2
  THEN a[1] < b[1] \/ (a[1] = b[1] /\ StrLess(a[2], b[2]))
  ELSE StrLess(a[1], b[1])

\* a descending sort that puts an element before the elements equal to it
insert_position_Unstable(out, x, keys) ==
  Cardinality({k \in 1..Len(out) : key_less(keys[x], keys[out[k]])})

\* list.sort(reverse=True) is stable: an element goes after every element
\* already placed whose key is not smaller
insert_position(out, x, keys) ==
  Cardinality({k \in 1..Len(out) : ~key_less(keys[out[k]], keys[x])})

\* list.sort(key=..., reverse=True) on a list of references, keys[x] being
\* the key of the object x refers to
RECURSIVE sort_reverse(_, _)
sort_reverse(list, keys) ==
  IF Len(list) = 0 THEN <<>>
  ELSE LET out == sort_reverse(SubSeq(list, 1, Len(list) - 1), keys)
           x == list[Len(list)]
           n == insert_position(out, x, keys)
       IN  SubSeq(out, 1, n) \o <<x>> \o SubSeq(out, n + 1, Len(out))

\* lines 200-243: the caller's article objects after the call, the returned
\* list as references to them, and the returned search terms
search_articles(arts, q) ==
  IF strip(q) = <<>>
  THEN [articles |-> arts, filtered |-> <<>>, search_terms |-> {}]
  ELSE LET terms == expand_query_synonyms(q)
           heap == [i \in 1..Len(arts) |->
                      IF match_found(arts[i], terms)
                      THEN set_relevance_score(arts[i], relevance_score(arts[i], terms))
                      ELSE arts[i]]
           appended == SelectSeq([i \in 1..Len(arts) |-> i],
                                 LAMBDA i : match_found(arts[i], terms))
       IN  [articles |-> heap,
            filtered |-> sort_reverse(appended, [i \in 1..Len(heap) |-> search_sort_key(heap[i])]),
            search_terms |-> terms]

----------------------------------------------------------------------------
(* parse_rss_feed and the tool handlers *)

\* lines 94-98: published_parsed if set, else updated_parsed if set, else "";
\* a parsed date is held as the ISO-8601 text isoformat() gives for it
pub_date(entry) ==
  IF entry.published_parsed # <<>> THEN entry.published_parsed
  ELSE IF entry.updated_parsed # <<>> THEN entry.updated_parsed
  ELSE <<>>

\* lines 100-108: the article dict built from one feed entry
article_of(feed, entry) ==
  [title |-> entry.title, link |-> entry.link, summary |-> entry.summary,
   published |-> pub_date(entry), source |-> feed.title,
   author |-> entry.author, tags |-> entry.tags]

\* lines 86-115: the first `limit` entries as articles; [] when parsing raised
parse_rss_feed(feed, limit) ==
  IF ~feed.ok THEN <<>>
  ELSE [i \in 1..Min(limit, Len(feed.entries)) |-> article_of(feed, feed.entries[i])]

\* lines 117-135
filter_articles_by_category(arts, category) ==
  IF ~HasKey(CATEGORY_KEYWORDS, category) THEN arts
  ELSE LET keywords == Lookup(CATEGORY_KEYWORDS, category)
           text(article) == title_lower(article) \o <<" ">> \o summary_lower(article)
                              \o <<" ">> \o tags_lower(article)
       IN  SelectSeq(arts, LAMBDA article :
             \E k \in 1..Len(keywords) : contains(text(article), keywords[k]))

\* min(max(limit, 1), 50), lines 258, 314, 357, 398
clamp(limit) == Min(Max(limit, 1), 50)

\* article["source_name"] = name for every article of a list
with_source_name(arts, name) ==
  [i \in 1..Len(arts) |->
     [f \in (DOMAIN arts[i]) \cup {"source_name"} |->
        IF f = "source_name" THEN name ELSE arts[i][f]]]

\* the loop of lines 263-267, 318-322 and 361-365: every source's feed, in
\* the order of NEWS_SOURCES, the first per_source entries of each
fetch_all(fds, per_source) ==
  Flatten([i \in 1..Len(NEWS_SOURCES) |->
    with_source_name(parse_rss_feed(fds[NEWS_SOURCES[i][2]], per_source),
                     NEWS_SOURCES[i][1])])

\* the feed URLs that loop hands to parse_rss_feed
all_feed_urls == [i \in 1..Len(NEWS_SOURCES) |-> NEWS_SOURCES[i][2]]

\* the first n elements of a list: list[:n] for n >= 0
first(list, n) == SubSeq(list, 1, Min(n, Len(list)))

\* line 270 with a key that is the same for every article
headlines_sort_key_Constant(x) == << <<>> >>

\* line 270: key=lambda x: x.get("published", "")
headlines_sort_key(x) == <<get(x, "published", <<>>)>>

\* line 371: key=lambda x: x.get("published", "")
category_sort_key(x) == <<get(x, "published", <<>>)>>

\* lines 270-271: all_articles.sort(key=..., reverse=True)
headlines_sorted(arts) ==
  LET order == sort_reverse([i \in 1..Len(arts) |-> i],
                            [i \in 1..Len(arts) |-> headlines_sort_key(arts[i])])
  IN  [i \in 1..Len(arts) |-> arts[order[i]]]

\* lines 371-372: filtered_articles.sort(key=..., reverse=True)
category_sorted(arts) ==
  LET order == sort_reverse([i \in 1..Len(arts) |-> i],
                            [i \in 1..Len(arts) |-> category_sort_key(arts[i])])
  IN  [i \in 1..Len(arts) |-> arts[order[i]]]

\* line 279: source in NEWS_SOURCES
is_known_source(source) == HasKey(NEWS_SOURCES, source)

\* lines 257-297: the dict handed to json.dumps, and the feed URLs fetched
get_headlines(source, limit, fds) ==
  LET lim == clamp(limit)
  IN  IF source = "all"
      THEN LET all_articles == first(headlines_sorted(fetch_all(fds, 5)), lim)
           IN  [response |-> [articles |-> all_articles, total |-> Len(all_articles),
                              sources |-> Keys(NEWS_SOURCES)],
                fetched |-> all_feed_urls]
      ELSE IF is_known_source(source)
      THEN LET url == Lookup(NEWS_SOURCES, source)
               arts == with_source_name(parse_rss_feed(fds[url], lim), source)
           IN  [response |-> [articles |-> arts, total |-> Len(arts), source |-> source],
                fetched |-> <<url>>]
      ELSE [response |-> [error |-> [message |-> "Unknown source", given |-> source,
                                     available |-> <<"all">> \o Keys(NEWS_SOURCES)]],
            fetched |-> <<>>]

\* line 311 without the strip(): only the empty string is rejected
query_is_blank_NoStrip(q) == q = <<>>

\* line 311: not query.strip()
query_is_blank(q) == strip(q) = <<>>

\* line 334: search_terms[:10], the first ten of a list whose order is not
\* defined: every choice of min(10, n) of the n terms
first_ten(terms) ==
  {S \in SUBSET terms : Cardinality(S) = Min(10, Cardinality(terms))}

\* lines 310-338, for one choice of the displayed terms
search_news(q, limit, fds, shown) ==
  IF query_is_blank(q)
  THEN [response |-> [error |-> [message |-> "Query cannot be empty"]], fetched |-> <<>>]
  ELSE LET lim == clamp(limit)
           r == search_articles(fetch_all(fds, 10), q)
           filtered_articles == first([i \in 1..Len(r.filtered) |-> r.articles[r.filtered[i]]], lim)
       IN  [response |-> [articles |-> filtered_articles, total |-> Len(filtered_articles),
                          query |-> q, search_terms_used |-> shown],
            fetched |-> all_feed_urls]

\* lines 351-381
get_category_news(category, limit, fds) ==
  IF ~HasKey(CATEGORY_KEYWORDS, category)
  THEN [response |-> [error |-> [message |-> "Unknown category", given |-> category,
                                 available |-> Keys(CATEGORY_KEYWORDS)]],
        fetched |-> <<>>]
  ELSE LET lim == clamp(limit)
           filtered_articles ==
             first(category_sorted(filter_articles_by_category(fetch_all(fds, 10), category)),
                   lim)
       IN  [response |-> [articles |-> filtered_articles, total |-> Len(filtered_articles),
                          category |-> category],
            fetched |-> all_feed_urls]

\* lines 394-409
get_rss_feed(feed_url, limit, fds) ==
  IF strip(feed_url) = <<>>
  THEN [response |-> [error |-> [message |-> "Feed URL cannot be empty"]], fetched |-> <<>>]
  ELSE LET arts == parse_rss_feed(fds[feed_url], clamp(limit))
       IN  [response |-> [articles |-> arts, total |-> Len(arts), feed_url |-> feed_url],
            fetched |-> <<feed_url>>]

----------------------------------------------------------------------------
(* Inputs *)

\* longest query handed to expand_query_synonyms
MaxQueryLen == 3

\* longest article list handed to search_articles
MaxArticles == 2

\* the characters of the queries: "ai" and "x" are keys and synonyms of the
\* table, "X" is changed by lower() and " " by strip()
QueryAlphabet == {"a", "i", "x", "X", " "}

Queries == UNION {[1..n -> QueryAlphabet] : n \in 0..MaxQueryLen}

\* the queries handed to search_articles: a key of the table, a query that
\* lower() and strip() change, one with a space inside, a blank one, a plain one
SearchQueries == { <<"x">>, <<" ", "X">>, <<"a", " ", "a">>, <<" ">>, <<"b">> }

\* title, summary, tags and author of the articles searched
ArticleTexts ==
  { << <<"X">>, <<>>, <<>>, <<>> >>,
    << <<>>, <<"x">>, <<>>, <<>> >>,
    << <<>>, <<>>, << <<"x">> >>, <<>> >>,
    << <<>>, <<>>, <<>>, <<"x">> >>,
    << <<"a">>, <<"a">>, <<>>, <<>> >>,
    << <<>>, <<>>, << <<"a">>, <<"A">> >>, <<>> >>,
    << <<"t","w","e","e","t"," ","x">>, <<>>, <<>>, <<>> >>,
    << <<"b">>, <<>>, <<>>, <<>> >> }

\* publication dates: none, and two that compare as text and not as numbers
Published == { <<>>, <<"1", "9">>, <<"2">> }

ArticlePool ==
  { [title |-> t[1], link |-> <<"u">>, summary |-> t[2], published |-> p,
     source |-> <<"F">>, author |-> t[4], tags |-> t[3], source_name |-> "bbc"] :
      t \in ArticleTexts, p \in Published }

ArticleLists == UNION {[1..n -> ArticlePool] : n \in 0..MaxArticles}

\* a URL that is no known source's feed
custom_url == <<"u">>

FeedUrls == Range(all_feed_urls) \cup {custom_url}

entry_old ==
  [title |-> <<"X">>, link |-> <<"u", "1">>, summary |-> <<>>,
   published_parsed |-> <<"1", "9">>, updated_parsed |-> <<>>,
   author |-> <<>>, tags |-> <<>>]

entry_new ==
  [title |-> <<"u", "n">>, link |-> <<"u", "2">>, summary |-> <<>>,
   published_parsed |-> <<>>, updated_parsed |-> <<"2">>,
   author |-> <<>>, tags |-> << <<"a">> >>]

\* what feedparser gives for a URL: a feed that failed to parse, or a feed
\* whose entries are not in the order of their dates
FeedPool ==
  { [ok |-> FALSE, title |-> <<>>, entries |-> <<>>],
    [ok |-> TRUE, title |-> <<"F">>, entries |-> <<entry_old, entry_new>>] }

SourceArgs == {"all", "unknownsrc"} \cup Range(Keys(NEWS_SOURCES))
CategoryArgs == {"weather"} \cup Range(Keys(CATEGORY_KEYWORDS))
LimitArgs == {0, 2, 51}
QueryArgs == { <<>>, <<" ", " ">>, <<"x">>, <<"u", "n">> }
UrlArgs == { <<>>, <<" ">>, custom_url, NEWS_SOURCES[1][2] }

----------------------------------------------------------------------------
(* State machine: one call of one operation; pc is the operation that returned *)

NoResponse == [none |-> TRUE]

InitCommon ==
  /\ pc = "init"
  /\ query = <<>>
  /\ filtered = <<>>
  /\ search_terms = {}
  /\ request = <<>>
  /\ response = NoResponse
  /\ fetched = <<>>

InitExpand == InitCommon /\ articles = <<>> /\ feeds = <<>>

InitSearch == InitCommon /\ articles \in ArticleLists /\ feeds = <<>>

InitTools == InitCommon /\ articles = <<>> /\ feeds \in [FeedUrls -> FeedPool]

\* a call of expand_query_synonyms(q)
ExpandQuery(q) ==
  /\ pc = "init"
  /\ pc' = "expand_query_synonyms"
  /\ query' = q
  /\ search_terms' = expand_query_synonyms(q)
  /\ UNCHANGED <<articles, filtered, feeds, request, response, fetched>>

\* a call of search_articles(articles, q) on the caller's list
SearchArticles(q) ==
  LET r == search_articles(articles, q)
  IN  /\ pc = "init"
      /\ pc' = "search_articles"
      /\ query' = q
      /\ articles' = r.articles
      /\ filtered' = r.filtered
      /\ search_terms' = r.search_terms
      /\ UNCHANGED <<feeds, request, response, fetched>>

\* the server answers one tool call
Returns(name, r) ==
  /\ pc = "init"
  /\ pc' = name
  /\ response' = r.response
  /\ fetched' = r.fetched
  /\ UNCHANGED <<query, articles, filtered, search_terms, feeds>>

GetHeadlines ==
  \E source \in SourceArgs, limit \in LimitArgs :
    /\ request' = [source |-> source, limit |-> limit]
    /\ Returns("get_headlines", get_headlines(source, limit, feeds))

SearchNews ==
  \E q \in QueryArgs, limit \in LimitArgs :
    \E shown \in first_ten(expand_query_synonyms(q)) :
      /\ request' = [query |-> q, limit |-> limit]
      /\ Returns("search_news", search_news(q, limit, feeds, shown))

GetCategoryNews ==
  \E category \in CategoryArgs, limit \in LimitArgs :
    /\ request' = [category |-> category, limit |-> limit]
    /\ Returns("get_category_news", get_category_news(category, limit, feeds))

GetRssFeed ==
  \E feed_url \in UrlArgs, limit \in LimitArgs :
    /\ request' = [feed_url |-> feed_url, limit |-> limit]
    /\ Returns("get_rss_feed", get_rss_feed(feed_url, limit, feeds))

NextExpand == \E q \in Queries : ExpandQuery(q)

NextSearch == \E q \in SearchQueries : SearchArticles(q)

NextTools == GetHeadlines \/ SearchNews \/ GetCategoryNews \/ GetRssFeed

SpecExpand == InitExpand /\ [][NextExpand]_vars

SpecSearch == InitSearch /\ [][NextSearch]_vars

SpecTools == InitTools /\ [][NextTools]_vars

----------------------------------------------------------------------------
(* Query expansion: C1, C2 *)

Expanded == pc = "expand_query_synonyms"

\* the seed q = query.lower().strip()
Seed == strip(lower(query))

\* the keys K of the table such that K, or some synonym of K, occurs in q
MatchedGroups(q) ==
  {i \in 1..Len(synonym_groups) :
     \/ contains(q, synonym_groups[i][1])
     \/ \E syn \in Range(synonym_groups[i][2]) : contains(q, syn)}

\* C1: expand_query_synonyms(query) is, as a set, exactly the seed together
\* with all synonyms of every key that occurs in the seed or has a synonym
\* occurring in the seed, the empty string removed
C1_ExpansionIsSeedAndMatchedGroups ==
  Expanded =>
    search_terms =
      ({Seed} \cup UNION {Range(synonym_groups[i][2]) : i \in MatchedGroups(Seed)}) \ {<<>>}

\* C1 witness: a key that does not occur in the query is matched through one of
\* its synonyms, and a synonym of it that does not occur in the query is added
C1_Witness ==
  /\ Expanded
  /\ \E i \in 1..Len(synonym_groups) :
       /\ ~contains(Seed, synonym_groups[i][1])
       /\ \E syn \in Range(synonym_groups[i][2]) : contains(Seed, syn)
       /\ \E syn \in Range(synonym_groups[i][2]) :
            ~contains(Seed, syn) /\ syn \in search_terms

\* C2 as stated: for every query, the empty and the blank ones included, the
\* seed query.lower().strip() is a member of the expansion
C2_SeedAlwaysMember == Expanded => Seed \in search_terms

\* C2 amended: a query whose seed is not empty has its seed in the expansion,
\* and the expansion of an empty or whitespace-only query is empty
C2_SeedMemberUnlessBlank ==
  Expanded => IF Seed = <<>> THEN search_terms = {} ELSE Seed \in search_terms

\* C2 witness: a query that lower() and strip() both change, expanded
C2_Witness ==
  /\ Expanded
  /\ Seed # <<>>
  /\ lower(query) # query
  /\ strip(query) # query
  /\ Seed \in search_terms

----------------------------------------------------------------------------
(* Matching, scoring and ranking: C3, C4, C5, C6, C7, C10 *)

Searched == pc = "search_articles"

\* the article at position k of the returned list
Returned(k) == articles[filtered[k]]

\* the lower-cased text "{title} {summary} {tags joined by spaces} {author}"
SearchableText(article) ==
  lower(article.title \o <<" ">> \o article.summary \o <<" ">>
          \o join(article.tags) \o <<" ">> \o article.author)

\* the expanded terms that occur in a text
TermsIn(text) == {term \in search_terms : contains(lower(text), term)}

\* C3: for a non-blank query, an input article is returned exactly once if some
\* expanded term occurs in its searchable text and is absent otherwise
C3_ReturnedIffTermInText ==
  (Searched /\ strip(query) # <<>>) =>
    \A i \in 1..Len(articles) :
      Cardinality({k \in 1..Len(filtered) : filtered[k] = i})
        = IF TermsIn(SearchableText(articles[i])) # {} THEN 1 ELSE 0

\* C3 witness: of two input articles one is returned and the other is not
C3_Witness ==
  /\ Searched
  /\ strip(query) # <<>>
  /\ Len(articles) = 2
  /\ Len(filtered) = 1

\* C4: the relevance score of a returned article is 3 for each term in the
\* title, 2 for each in the summary, 1 for each in the joined tags and 1 for
\* each in the author, added up over all expanded terms
C4_ScoreIsWeightedSum ==
  Searched =>
    \A k \in 1..Len(filtered) :
      Returned(k).relevance_score
        =   3 * Cardinality(TermsIn(Returned(k).title))
          + 2 * Cardinality(TermsIn(Returned(k).summary))
          + Cardinality(TermsIn(join(Returned(k).tags)))
          + Cardinality(TermsIn(Returned(k).author))

\* C4 witness: one returned article has a term in its tags only and the score
\* 1, another has two terms in its title and the score 6
C4_Witness ==
  /\ Searched
  /\ \E k \in 1..Len(filtered) :
       /\ TermsIn(join(Returned(k).tags)) # {}
       /\ TermsIn(Returned(k).title) = {}
       /\ TermsIn(Returned(k).summary) = {}
       /\ TermsIn(Returned(k).author) = {}
       /\ Returned(k).relevance_score = 1
  /\ \E k \in 1..Len(filtered) :
       /\ Cardinality(TermsIn(Returned(k).title)) = 2
       /\ Returned(k).relevance_score = 6

\* C5: in the returned list the scores do not increase, and among equal scores
\* the publication dates do not increase in the order of str
C5_RankedByScoreThenPublished ==
  Searched =>
    \A k, l \in 1..Len(filtered) :
      k < l =>
        /\ Returned(k).relevance_score >= Returned(l).relevance_score
        /\ Returned(k).relevance_score = Returned(l).relevance_score
             => ~StrLess(Returned(k).published, Returned(l).published)

\* C5 witness: two returned articles of equal score that the sort exchanged,
\* the one without a date after the dated one
C5_Witness ==
  /\ Searched
  /\ Len(filtered) = 2
  /\ filtered[1] > filtered[2]
  /\ Returned(1).relevance_score = Returned(2).relevance_score
  /\ Returned(1).published # <<>>
  /\ Returned(2).published = <<>>

\* C6: two returned articles of equal score and equal publication date are in
\* the order they had in the input
C6_StableRanking ==
  Searched =>
    \A k, l \in 1..Len(filtered) :
      ( /\ k < l
        /\ Returned(k).relevance_score = Returned(l).relevance_score
        /\ Returned(k).published = Returned(l).published )
      => filtered[k] < filtered[l]

\* C6 witness: two different articles with the same score and date are returned
C6_Witness ==
  /\ Searched
  /\ Len(filtered) = 2
  /\ Returned(1).relevance_score = Returned(2).relevance_score
  /\ Returned(1).published = Returned(2).published
  /\ Returned(1) # Returned(2)

TermsInSomeField(article) ==
  TermsIn(article.title) \cup TermsIn(article.summary)
    \cup TermsIn(join(article.tags)) \cup TermsIn(article.author)

\* C10 as stated: every returned article has a relevance score of at least 1
C10_ReturnedScoreAtLeastOne ==
  Searched => \A k \in 1..Len(filtered) : Returned(k).relevance_score >= 1

\* C10 amended: every returned article has a relevance score of at least 0,
\* and of at least 1 exactly when some expanded term occurs in one of its four
\* fields; an article matched only across the space between two fields is
\* returned with the score 0
C10_ScorePositiveIffTermInField ==
  Searched =>
    \A k \in 1..Len(filtered) :
      /\ Returned(k).relevance_score >= 0
      /\ Returned(k).relevance_score >= 1 <=> TermsInSomeField(Returned(k)) # {}

\* C10 witness: an article in which no expanded term occurs in any single
\* field is returned, with the score 0
C10_Witness ==
  /\ Searched
  /\ \E k \in 1..Len(filtered) :
       Returned(k).relevance_score = 0 /\ TermsInSomeField(Returned(k)) = {}

----------------------------------------------------------------------------
(* Tool handlers: C8, C9 *)

\* the publication dates of a list of articles do not increase
PublishedDescending(arts) ==
  \A k, l \in 1..Len(arts) : k < l => ~StrLess(arts[k].published, arts[l].published)

\* the publication dates of the articles of a response
PublishedOf(arts) == [k \in 1..Len(arts) |-> arts[k].published]

\* C8 as stated: get_headlines returns its articles sorted by publication date,
\* newest first, for source "all" and for every single known source
C8_HeadlinesSortedForEverySource ==
  (pc = "get_headlines" /\ "articles" \in DOMAIN response)
    => PublishedDescending(response.articles)

\* C8 amended: get_headlines returns its articles sorted by publication date,
\* newest first, for source "all"; for a single known source it returns the
\* first `limit` entries of that feed in the order of the feed, not sorted
C8_HeadlinesSortedForAll ==
  (pc = "get_headlines" /\ "articles" \in DOMAIN response) =>
    IF request.source = "all"
    THEN PublishedDescending(response.articles)
    ELSE LET feed == feeds[Lookup(NEWS_SOURCES, request.source)]
             n == Min(Len(feed.entries), Min(Max(request.limit, 1), 50))
         IN  PublishedOf(response.articles) = [k \in 1..n |-> pub_date(feed.entries[k])]

\* C8 witness: source "all" returns articles of more than one date, and the
\* order differs from the order they were fetched in
C8_Witness ==
  /\ pc = "get_headlines"
  /\ request.source = "all"
  /\ Len(response.articles) > 2
  /\ response.articles[1].published # response.articles[Len(response.articles)].published
  /\ response.articles[1].link # <<"u", "1">>

\* a str that is empty or has whitespace only
Blank(str) == \A i \in 1..Len(str) : str[i] = " "

\* a response that is an error payload and nothing else, given with no fetch
ErrorOnly == DOMAIN response = {"error"} /\ fetched = <<>>

\* C9: invalid input is answered by a payload whose only key is "error", with
\* no feed fetched: a blank query of search_news by "Query cannot be empty", an
\* unknown source of get_headlines by the valid sources with "all", an unknown
\* category of get_category_news by the valid categories, a blank URL of
\* get_rss_feed by an error
C9_InvalidInputGivesErrorOnly ==
  /\ (pc = "search_news" /\ Blank(request.query)) =>
       ErrorOnly /\ response.error = [message |-> "Query cannot be empty"]
  /\ (pc = "get_headlines" /\ request.source \notin {"all"} \cup Range(Keys(NEWS_SOURCES))) =>
       /\ ErrorOnly
       /\ Range(response.error.available) = {"all"} \cup Range(Keys(NEWS_SOURCES))
  /\ (pc = "get_category_news" /\ request.category \notin Range(Keys(CATEGORY_KEYWORDS))) =>
       /\ ErrorOnly
       /\ Range(response.error.available) = Range(Keys(CATEGORY_KEYWORDS))
  /\ (pc = "get_rss_feed" /\ Blank(request.feed_url)) => ErrorOnly

\* C9 witness: search_news has answered a query of whitespace only, with feeds
\* that would have given articles
C9_Witness ==
  /\ pc = "search_news"
  /\ request.query = <<" ", " ">>
  /\ "error" \in DOMAIN response
  /\ \A u \in DOMAIN feeds : feeds[u].ok

====
